---- MODULE Spec2Model ----
(***************************************************************************)
(* Model of the operational scripts of commons.systems:                    *)
(*   - monitor_workflows of claudetool/check_workflows.py and of           *)
(*     claudeweb/claudetool/check_workflows.py (the polling loop);         *)
(*   - the provisioning runs of iac.py and setup.py against a cloud state; *)
(*   - check_workflows of both check_workflows.py files;                   *)
(*   - main of debug_gcp_deployment.py.                                    *)
(* One behaviour follows one invocation of one script (prog); provisioning *)
(* scripts may be invoked a second time on the state the first run left.   *)
(***************************************************************************)
EXTENDS Integers, Sequences, FiniteSets, TLC

\* ---------------------------------------------------------------- bounds
MaxPolls == 3
MaxRunId == 2
MaxInterval == 1
MaxCount == 2

\* ------------------------------------------------------- monitor: inputs
NoneId == 0          \* Python None of last_run_id
NoBranch == ""       \* branch=None (or empty): "if branch:" is false
Null == "null"       \* JSON null / absent key read with .get()

Branches == {"main", "feat"}
Intervals == (-1)..MaxInterval
TokenValues == {"", "ghp"}
PatValues == {"", "github_pat"}
Counts == (-1)..MaxCount

\* status/conclusion pairs of a workflow-run record
StatusPairs ==
    {<<s, Null>> : s \in {"queued", "in_progress", "waiting", "completed"}}
    \cup {<<"completed", c>> : c \in {"success", "failure", "cancelled", "skipped"}}

\* A workflow-run record of the API response. hasId: the 'id' key is present;
\* keys: the keys format_workflow indexes (name, head_branch, head_sha,
\* created_at, html_url) are all present.
Runs ==
    {[id |-> i, hasId |-> h, head_branch |-> b, status |-> sp[1],
      conclusion |-> sp[2], keys |-> k] :
        i \in 1..MaxRunId, h \in BOOLEAN, b \in Branches,
        sp \in StatusPairs, k \in BOOLEAN}

\* Older runs that follow the first one in a response: a queued run of each
\* branch, enough for the branch filter to skip the first run or not.
OlderRuns ==
    {r \in Runs : r.hasId /\ r.keys /\ r.status = "queued" /\ r.id = MaxRunId}

\* Responses of zero, one or two runs, in API order (newest first).
RunLists ==
    {<<>>} \cup {<<r>> : r \in Runs}
    \cup {<<r1, r2>> : r1 \in Runs, r2 \in OlderRuns}

\* ------------------------------------------------------ monitor: helpers
get_github_token_pat_first(e) ==
    IF e.GITHUB_PAT # "" THEN e.GITHUB_PAT ELSE e.GITHUB_TOKEN

\* os.environ.get('GITHUB_TOKEN') or os.environ.get('GITHUB_PAT')
get_github_token(e) ==
    IF e.GITHUB_TOKEN # "" THEN e.GITHUB_TOKEN ELSE e.GITHUB_PAT

FilterBranch(b, rs) ==
    IF b # NoBranch THEN SelectSeq(rs, LAMBDA r : r.head_branch = b) ELSE rs

format_workflow_raises(r) == ~r.keys

Raise(stage, lrid) ==
    [kind |-> "raise", stage |-> stage, lrid |-> lrid, result |-> "none"]
Return(res, lrid) ==
    [kind |-> "return", stage |-> "none", lrid |-> lrid, result |-> res]
ToSleep(lrid) ==
    [kind |-> "sleep", stage |-> "none", lrid |-> lrid, result |-> "none"]

PrintAndReturn(latest, res) ==
    IF format_workflow_raises(latest)
    THEN Raise("format", latest.id)
    ELSE Return(res, latest.id)

PrintAndSleep(latest) ==
    IF format_workflow_raises(latest)
    THEN Raise("format", latest.id)
    ELSE ToSleep(latest.id)

\* claudeweb/claudetool/check_workflows.py, lines 169-200
StatusBranchWeb(latest) ==
    IF latest.status = "completed"
    THEN CASE latest.conclusion = "success" -> PrintAndReturn(latest, "True")
           [] latest.conclusion = "failure" -> PrintAndReturn(latest, "False")
           [] latest.conclusion = "cancelled" -> PrintAndReturn(latest, "False")
           [] OTHER ->
                IF latest.conclusion = Null
                THEN Raise("upper", latest.id)
                ELSE PrintAndReturn(latest, "False")
    ELSE IF latest.status \in {"in_progress", "queued"}
         THEN PrintAndSleep(latest)
         ELSE ToSleep(latest.id)

\* claudetool/check_workflows.py, lines 147-165
StatusBranchTool(latest) ==
    CASE latest.conclusion = "success" -> PrintAndReturn(latest, "True")
      [] latest.conclusion = "failure" -> PrintAndReturn(latest, "False")
      [] latest.status \in {"in_progress", "queued"} -> PrintAndSleep(latest)
      [] OTHER -> ToSleep(latest.id)

\* The id comparison and assignment, then the status branches.
ProcessLatest(v, lrid, latest) ==
    IF ~latest.hasId
    THEN Raise("id", lrid)
    ELSE IF v = "claudeweb" THEN StatusBranchWeb(latest)
                            ELSE StatusBranchTool(latest)

\* What fetch_workflows does: it raises (network error, bad JSON: ok = FALSE)
\* or returns data.get('workflow_runs', []).
Fetched ==
    {[ok |-> FALSE, runs |-> <<>>]} \cup {[ok |-> TRUE, runs |-> rs] : rs \in RunLists}

\* The body of the inner try up to (not including) time.sleep(interval).
PollBody(v, b, lrid, fetched) ==
    IF ~fetched.ok
    THEN Raise("fetch", lrid)
    ELSE LET runs == FilterBranch(b, fetched.runs) IN
         IF Len(runs) = 0
         THEN ToSleep(lrid)
         ELSE ProcessLatest(v, lrid, runs[1])

\* time.sleep(interval) raises ValueError for a negative interval.
sleep_raises(i) == i < 0

\* (variants of the handler used to test the properties below)
ExceptHandlerNoSleep(i, n) ==
    [pc |-> "poll", sleeps |-> n, slept |-> FALSE, result |-> "none"]

ExceptHandlerReturns(i, n) ==
    [pc |-> "done", sleeps |-> n, slept |-> FALSE, result |-> "False"]

\* except Exception as e: print(...); time.sleep(interval)
\* A ValueError of the handler's own sleep reaches the outer handler, which
\* prints "Fatal error" and returns False.
ExceptHandler(i, n) ==
    IF sleep_raises(i)
    THEN [pc |-> "done", sleeps |-> n, slept |-> FALSE, result |-> "False"]
    ELSE [pc |-> "poll", sleeps |-> n + 1, slept |-> TRUE, result |-> "none"]

\* Where a KeyboardInterrupt raised at position p ends up: inside the body of
\* the inner try it is caught ("Monitoring stopped by user", return True);
\* in the except-Exception handler or before the try nothing catches it.
InterruptCaught(p) == p \in {"poll", "sleep"}

\* ------------------------------------------------- provisioning: helpers
Repos == <<"cloud-run-images", "fellspiral-production", "fellspiral-previews">>
RepoSet == {Repos[i] : i \in 1..Len(Repos)}
Secret == "GITHUB_API_TOKEN"
\* resources the four provisioning steps manage
ListedRes == {"pool", "provider", "sa", Secret} \cup RepoSet
\* resources provisioned with a describe-then-create pair
PairedRes == {"pool", "provider", "sa", "bucket"} \cup RepoSet
Sites == {"fellspiral", "videobrowser", "audiobrowser"}

TokenCreator == "roles/iam.serviceAccountTokenCreator"
\* the roles setup_ci_logs_proxy grants, in the order it grants them
GrantSeq ==
    <<"roles/secretmanager.admin", "roles/artifactregistry.admin",
      "roles/run.admin", "roles/iam.serviceAccountUser",
      "roles/storage.admin", "roles/compute.loadBalancerAdmin",
      "roles/compute.networkAdmin", TokenCreator>>
GrantRoles == {GrantSeq[i] : i \in 1..Len(GrantSeq)}

\* bindings on the service account's own IAM policy
WorkloadIdentityUser == "roles/iam.workloadIdentityUser"
SaBindings == {WorkloadIdentityUser, TokenCreator}

\* state-changing commands the scripts issue
CreateCmd(r) == "create " \o r
GrantCmd(role) == "add-iam-policy-binding " \o role
Commands ==
    {"config-set-project", "enable-serviceusage", "enable-apis",
     "update-provider", "bind-workload-identity", "create-secret",
     "add-secret-version", "add-firebase", "create-sites", "update-bucket",
     "terraform"}
    \cup {CreateCmd(r) : r \in PairedRes}
    \cup {GrantCmd(r) : r \in GrantRoles}

BumpAll(f, S) == [c \in Commands |-> IF c \in S THEN f[c] + 1 ELSE f[c]]

\* cloud states a run may start from
InitCore ==
    {{}, {"pool"}, {"pool", "provider", "sa"}, {"sa", Secret},
     {"pool", "provider", "sa", Secret}}
InitRepos == {{}, RepoSet}
InitLate ==
    {[res |-> {}, firebase |-> FALSE, sites |-> {}],
     [res |-> {"bucket"}, firebase |-> TRUE, sites |-> Sites]}
InitProjRoles == {{}, {"roles/run.admin", TokenCreator}}
InitClouds ==
    {[res |-> core \cup repos \cup late.res,
      projRoles |-> pr,
      saRoles |-> IF "sa" \in core THEN sr ELSE {},
      cond |-> IF "provider" \in core THEN "other" ELSE "none",
      apis |-> "pool" \in core,
      firebase |-> late.firebase,
      sites |-> late.sites,
      versions |-> IF Secret \in core THEN 1 ELSE 0] :
        core \in InitCore, repos \in InitRepos, late \in InitLate,
        pr \in InitProjRoles, sr \in {{}, SaBindings}}
\* the runs of --ci and --iac touch only the sites and the bucket
LateClouds == {c \in InitClouds : c.res \subseteq {"bucket"} /\ c.projRoles = {}}

\* run_command(describe ..., check=False): stdout of the describe, empty when
\* the resource does not exist
Describe(c, r) == IF r \in c.res THEN "description" ELSE ""

\* "if not x_exists:" of every describe-then-create pair
ShouldCreateAlways(out) == TRUE

ShouldCreate(out) == out = ""

\* gcloud projects get-iam-policy: the roles bound to the terraform service
\* account on the project
GetProjectPolicy(c) == c.projRoles

\* the "for binding in policy.get('bindings', [])" scan of the project policy
HasPermission(policy, role) == role \in policy

\* the policy the add-iam-policy-binding command of a role writes to:
\* "gcloud projects add-iam-policy-binding" for seven roles,
\* "gcloud iam service-accounts add-iam-policy-binding" for Token Creator
GrantTarget(role) == IF role = TokenCreator THEN "sa" ELSE "project"

\* does the service account hold the role on the resource its grant targets
HeldOnTarget(c, role) ==
    IF GrantTarget(role) = "sa" THEN role \in c.saRoles
                                ELSE role \in c.projRoles

ApplyGrant(c, role) ==
    IF GrantTarget(role) = "sa"
    THEN [c EXCEPT !.saRoles = @ \cup {role}]
    ELSE [c EXCEPT !.projRoles = @ \cup {role}]

\* outputs (2>&1) of "gcloud services enable", by the markers they contain
EnableOutputs ==
    {{}, {"ERROR"}, {"ERROR", "SERVICE_DISABLED"},
     {"ERROR", "SERVICE_DISABLED", "serviceusage.googleapis.com"}}

ShouldRetryOnAnyError(out) == out # {}

\* iac.py enable_apis: the test that guards the retry of the batch enable
ShouldRetry(out) ==
    "SERVICE_DISABLED" \in out /\ "serviceusage.googleapis.com" \in out

print_error_rollback(c, made) ==
    [c EXCEPT !.res = @ \ made.res, !.projRoles = @ \ made.roles,
              !.saRoles = @ \ made.roles]

\* print_error: prints and sys.exit(1); the cloud keeps what the run made
print_error(c, made) == c

\* values of GCP_PROJECT_ID and of "gcloud config get-value project"
ProjectIds == {"", "chalanding"}

ResolveProjectIdOrAsk(envPid, gcloudPid) ==
    [project_id |-> IF envPid # "" THEN envPid ELSE gcloudPid,
     asked |-> envPid = "" /\ gcloudPid = ""]

\* iac.py main, --ci and --iac: the project id comes from the environment,
\* else from the gcloud configuration; the user is never asked for it
ResolveProjectId(envPid, gcloudPid) ==
    [project_id |-> IF envPid # "" THEN envPid ELSE gcloudPid,
     asked |-> FALSE]

\* the condition of the second describe of the secret that guards the grants
GrantGateStale(c, secret_exists) == secret_exists # ""

GrantGateOpen(c, secret_exists) == Describe(c, Secret) # ""

\* ----------------------------------------------- check_workflows: helpers
\* runs[:count], the Python slice: a negative count drops runs from the end
Slice(rs, n) ==
    IF n >= 0
    THEN SubSeq(rs, 1, IF n < Len(rs) THEN n ELSE Len(rs))
    ELSE SubSeq(rs, 1, IF Len(rs) + n > 0 THEN Len(rs) + n ELSE 0)

\* "for run in runs: print(format_workflow(run))": the runs printed before
\* format_workflow raises KeyError (all of them when it never does)
RECURSIVE Printed(_)
Printed(rs) ==
    IF rs = <<>> THEN <<>>
    ELSE IF format_workflow_raises(Head(rs)) THEN <<>>
    ELSE <<Head(rs)>> \o Printed(Tail(rs))

\* the try block of check_workflows: what is printed and what is returned
CheckBody(b, n, fetched) ==
    IF ~fetched.ok
    THEN [shown |-> <<>>, result |-> "False"]
    ELSE LET runs == FilterBranch(b, fetched.runs) IN
         IF b # NoBranch /\ runs = <<>>
         THEN [shown |-> <<>>, result |-> "False"]
         ELSE LET cut == Slice(runs, n) IN
              [shown |-> Printed(cut),
               result |-> IF Printed(cut) = cut THEN "True" ELSE "False"]

\* ------------------------------------------ debug_gcp_deployment: helpers
Apis ==
    {"run.googleapis.com", "artifactregistry.googleapis.com",
     "cloudbuild.googleapis.com"}

\* stdout of the get_gcp_token.sh subprocess
GcpTokenOutputs == {"", "short", "ya29.a0AfB_byC"}

\* get_gcp_token: the token when it is longer than 10 characters, else None
get_gcp_token(out) == IF out # "" /\ Len(out) > 10 THEN out ELSE Null

\* what the serviceusage request of one API does: the 'state' it reports, or
\* an exception
ApiResponses == {"ENABLED", "DISABLED", "error"}

\* check_api_enabled: True, False, or None after an exception
check_api_enabled(resp) ==
    IF resp = "error" THEN "None"
    ELSE IF resp = "ENABLED" THEN "True" ELSE "False"

\* "if not api_status.get(api)"
NotEnabled(st, api) == st[api] # "True"

RequiredRepos == {"fellspiral-previews", "fellspiral-production"}
\* names of listed repositories; Null: an entry without a 'name' key
RepoNames == RequiredRepos \cup {"other", Null}
ServiceNames == {"site", Null}

\* what the listing requests do: a list of entries, an HTTP error, or
\* another exception
Listings(names) ==
    {[kind |-> "list", names |-> ns, code |-> "200"] : ns \in SUBSET names}
    \cup {[kind |-> "http", names |-> {}, code |-> c] :
             c \in {"403", "404", "500"}}
    \cup {[kind |-> "error", names |-> {}, code |-> "timeout"]}

\* check_artifact_registry / check_cloud_run_services: the list, or a string
list_or_error(resp) ==
    CASE resp.kind = "list" ->
            [isList |-> TRUE, names |-> resp.names, str |-> ""]
      [] resp.kind = "http" ->
            [isList |-> FALSE, names |-> {},
             str |-> IF resp.code = "403" THEN "PERMISSION_DENIED"
                     ELSE IF resp.code = "404" THEN "API_NOT_ENABLED"
                     ELSE "ERROR_" \o resp.code]
      [] OTHER ->
            [isList |-> FALSE, names |-> {}, str |-> "ERROR: " \o resp.code]

NoListing == [isList |-> FALSE, names |-> {}, str |-> "unchecked"]

\* "name = repo['name']..." raises KeyError on an entry without the key
listing_raises(l) == l.isList /\ Null \in l.names

\* the recommendations main collects
Recommendations(st, rp) ==
    (IF NotEnabled(st, "run.googleapis.com")
     THEN {"Cloud Run API not enabled"} ELSE {})
    \cup (IF NotEnabled(st, "artifactregistry.googleapis.com")
          THEN {"Artifact Registry API not enabled"} ELSE {})
    \cup (IF rp.isList
          THEN {r \o " repository missing" : r \in RequiredRepos \ rp.names}
          ELSE {})

\* ------------------------------------------------------------- variables
VARIABLES
    prog,         \* which script this behaviour runs
    pc,           \* position in the script
    variant,      \* monitor: "claudeweb" or "claudetool"
    branch,       \* monitor: --branch
    interval,     \* monitor: --interval
    env,          \* monitor: GITHUB_TOKEN, GITHUB_PAT
    last_run_id,  \* monitor: last_run_id
    result,       \* value returned ("True"/"False"), "KeyboardInterrupt"
                  \* when the interrupt propagates, "none" while running
    fetches,      \* number of fetch_workflows calls so far
    sleeps,       \* completed sleeps since the last fetch_workflows call
    lastSleep,    \* <<seconds>> of the last completed sleep, <<>> if none
    poll,         \* history of the last poll: exception stage, last_run_id
                  \* before it, status and conclusion it observed
    intr,         \* position at which a KeyboardInterrupt arrived, or "none"
    stopMsg,      \* "Monitoring stopped by user" was printed
    mode,         \* iac.py: "interactive", "ci" (--ci) or "iac" (--iac)
    skipTf,       \* iac.py: --skip-terraform
    cloud,        \* the GCP project: resources, bindings, settings
    config,       \* the config dict: update_github_token, github_token
    locals,       \* setup_ci_logs_proxy: secret_exists, project_policy, and
                  \* the index of the role being granted
    run,          \* 1: first invocation, 2: second invocation
    snap,         \* the cloud as the first invocation left it
    issued,       \* how often each state-changing command was issued in
                  \* this invocation
    hist,         \* history of this invocation (what was checked, issued,
                  \* created, prompted)
    token,        \* check/monitor: the token get_github_token returned
    count,        \* check_workflows: --count
    response,     \* check_workflows: what fetch_workflows did
    shown,        \* check_workflows: the runs printed, in order
    gcp_token,    \* debug_gcp_deployment: get_gcp_token returned a token
    api_status,   \* debug_gcp_deployment: api_status, by API
    repos,        \* debug_gcp_deployment: result of check_artifact_registry
    services,     \* debug_gcp_deployment: result of check_cloud_run_services
    exit_code,    \* debug_gcp_deployment: exit status of the script
    allMet        \* debug_gcp_deployment: "All prerequisites met!" printed

monVars == <<variant, branch, interval, env, last_run_id, result, fetches,
             sleeps, lastSleep, poll, intr, stopMsg, token>>

checkVars == <<count, response, shown>>

debugVars == <<gcp_token, api_status, repos, services, exit_code, allMet>>

provVars == <<mode, skipTf, cloud, config, locals, run, snap, issued, hist>>

vars == <<prog, pc, monVars, provVars, checkVars, debugVars>>

NoPoll == [stage |-> "none", before |-> NoneId, status |-> "none",
           conclusion |-> "none", latestId |-> NoneId, wellFormed |-> FALSE]

NoConfig == [update_github_token |-> FALSE, github_token |-> ""]
NoLocals ==
    [secret_exists |-> "", project_policy |-> {}, gi |-> 1, iamAllowed |-> TRUE]
NoHist ==
    [chk |-> [r \in PairedRes |-> "unchecked"],
     createIssued |-> {},
     held |-> [r \in GrantRoles |-> "unchecked"],
     addIssued |-> {},
     made |-> [res |-> {}, roles |-> {}],
     autoStarted |-> FALSE,
     latePrompt |-> FALSE,
     prompted |-> FALSE,
     tokenGiven |-> FALSE,
     failed |-> FALSE,
     provisioned |-> FALSE,
     enableOut |-> {},
     sitesDone |-> FALSE,
     tfRan |-> FALSE]
NoIssued == [c \in Commands |-> 0]
EmptyCloud ==
    [res |-> {}, projRoles |-> {}, saRoles |-> {}, cond |-> "none",
     apis |-> FALSE, firebase |-> FALSE, sites |-> {}, versions |-> 0]

MonitorIdle ==
    /\ variant = "claudeweb"
    /\ branch = NoBranch
    /\ interval = 0
    /\ env = [GITHUB_TOKEN |-> "", GITHUB_PAT |-> ""]
    /\ last_run_id = NoneId
    /\ result = "none"
    /\ fetches = 0
    /\ sleeps = 0
    /\ lastSleep = <<>>
    /\ poll = NoPoll
    /\ intr = "none"
    /\ stopMsg = FALSE
    /\ token = ""

NoResponse == [ok |-> FALSE, runs |-> <<>>]

CheckIdle ==
    /\ count = 0
    /\ response = NoResponse
    /\ shown = <<>>

DebugIdle ==
    /\ gcp_token = Null
    /\ api_status = [a \in Apis |-> "unchecked"]
    /\ repos = NoListing
    /\ services = NoListing
    /\ exit_code = "none"
    /\ allMet = FALSE

ProvIdle ==
    /\ mode = "interactive"
    /\ skipTf = FALSE
    /\ cloud = EmptyCloud
    /\ config = NoConfig
    /\ locals = NoLocals
    /\ run = 1
    /\ snap = EmptyCloud
    /\ issued = NoIssued
    /\ hist = NoHist

\* ------------------------------------------------------------------ Init
ProvInit ==
    /\ prog \in {"iac", "setup"}
    /\ pc = "start"
    /\ mode \in IF prog = "iac" THEN {"interactive", "ci", "iac"}
                ELSE {"interactive"}
    /\ skipTf \in IF prog = "iac" THEN BOOLEAN ELSE {FALSE}
    /\ cloud \in IF mode = "interactive" THEN InitClouds ELSE LateClouds
    /\ config = NoConfig
    /\ locals = NoLocals
    /\ run = 1
    /\ snap = EmptyCloud
    /\ issued = NoIssued
    /\ hist = NoHist
    /\ MonitorIdle
    /\ CheckIdle
    /\ DebugIdle

MonitorInit ==
    /\ ProvIdle
    /\ CheckIdle
    /\ DebugIdle
    /\ prog = "monitor"
    /\ pc = "start"
    /\ variant \in {"claudeweb", "claudetool"}
    /\ branch \in {NoBranch, "main"}
    /\ interval \in Intervals
    /\ env \in [GITHUB_TOKEN : TokenValues, GITHUB_PAT : PatValues]
    /\ last_run_id = NoneId
    /\ result = "none"
    /\ fetches = 0
    /\ sleeps = 0
    /\ lastSleep = <<>>
    /\ poll = NoPoll
    /\ intr = "none"
    /\ stopMsg = FALSE
    /\ token = ""

CheckInit ==
    /\ ProvIdle
    /\ DebugIdle
    /\ prog = "check"
    /\ pc = "start"
    /\ variant \in {"claudeweb", "claudetool"}
    /\ branch \in {NoBranch, "main"}
    /\ count \in Counts
    /\ env \in [GITHUB_TOKEN : TokenValues, GITHUB_PAT : PatValues]
    /\ interval = 0
    /\ last_run_id = NoneId
    /\ result = "none"
    /\ fetches = 0
    /\ sleeps = 0
    /\ lastSleep = <<>>
    /\ poll = NoPoll
    /\ intr = "none"
    /\ stopMsg = FALSE
    /\ token = ""
    /\ response = NoResponse
    /\ shown = <<>>

DebugInit ==
    /\ ProvIdle
    /\ MonitorIdle
    /\ CheckIdle
    /\ DebugIdle
    /\ prog = "debug"
    /\ pc = "start"

Init == MonitorInit \/ ProvInit \/ CheckInit \/ DebugInit

\* --------------------------------------------------------------- monitor
\* token = get_github_token(); if not token: return False
MonitorStart ==
    /\ prog = "monitor" /\ pc = "start"
    /\ token' = get_github_token(env)
    /\ IF token' = ""
       THEN pc' = "done" /\ result' = "False"
       ELSE pc' = "intro" /\ result' = result
    /\ UNCHANGED <<provVars, checkVars, debugVars, prog, variant, branch, interval, env, last_run_id, fetches,
                   sleeps, lastSleep, poll, intr, stopMsg>>

\* the two prints before the try; last_run_id = None
MonitorIntro ==
    /\ prog = "monitor" /\ pc = "intro"
    /\ pc' = "poll"
    /\ last_run_id' = NoneId
    /\ UNCHANGED <<provVars, checkVars, debugVars, token, prog, variant, branch, interval, env, result, fetches,
                   sleeps, lastSleep, poll, intr, stopMsg>>

\* one pass of the inner try body up to the sleep
Poll ==
    /\ prog = "monitor" /\ pc = "poll"
    /\ fetches < MaxPolls
    /\ \E fetched \in Fetched :
         LET out == PollBody(variant, branch, last_run_id, fetched)
             runs == FilterBranch(branch, fetched.runs)
             seen == Len(runs) > 0
         IN
         /\ fetches' = fetches + 1
         /\ sleeps' = 0
         /\ last_run_id' = out.lrid
         /\ poll' = [stage |-> out.stage, before |-> last_run_id,
                     status |-> IF seen THEN runs[1].status ELSE "none",
                     conclusion |-> IF seen THEN runs[1].conclusion ELSE "none",
                     latestId |-> IF seen /\ runs[1].hasId THEN runs[1].id
                                  ELSE NoneId,
                     wellFormed |-> seen /\ runs[1].hasId /\ runs[1].keys]
         /\ result' = out.result
         /\ pc' = CASE out.kind = "raise" -> "handler"
                    [] out.kind = "return" -> "done"
                    [] OTHER -> "sleep"
    /\ UNCHANGED <<provVars, checkVars, debugVars, token, prog, variant, branch, interval, env, lastSleep, intr,
                   stopMsg>>

\* time.sleep(interval) at the end of the try body
Sleep ==
    /\ prog = "monitor" /\ pc = "sleep"
    /\ IF sleep_raises(interval)
       THEN /\ pc' = "handler"
            /\ poll' = [poll EXCEPT !.stage = "sleep"]
            /\ UNCHANGED <<sleeps, lastSleep>>
       ELSE /\ pc' = "poll"
            /\ sleeps' = sleeps + 1
            /\ lastSleep' = <<interval>>
            /\ UNCHANGED poll
    /\ UNCHANGED <<provVars, checkVars, debugVars, token, prog, variant, branch, interval, env, last_run_id, result,
                   fetches, intr, stopMsg>>

\* except Exception: print the error, sleep, continue the loop
Handler ==
    /\ prog = "monitor" /\ pc = "handler"
    /\ LET h == ExceptHandler(interval, sleeps) IN
         /\ pc' = h.pc
         /\ sleeps' = h.sleeps
         /\ lastSleep' = IF h.slept THEN <<interval>> ELSE lastSleep
         /\ result' = h.result
    /\ UNCHANGED <<provVars, checkVars, debugVars, token, prog, variant, branch, interval, env, last_run_id, fetches,
                   poll, intr, stopMsg>>

\* Ctrl+C while the function is printing, polling or sleeping
Interrupt ==
    /\ prog = "monitor" /\ pc \in {"intro", "poll", "sleep", "handler"}
    /\ intr' = pc
    /\ pc' = "done"
    /\ IF InterruptCaught(pc)
       THEN stopMsg' = TRUE /\ result' = "True"
       ELSE stopMsg' = stopMsg /\ result' = "KeyboardInterrupt"
    /\ UNCHANGED <<provVars, checkVars, debugVars, token, prog, variant, branch, interval, env, last_run_id, fetches,
                   sleeps, lastSleep, poll>>

\* ---------------------------------------------------------- provisioning
\* The outcome of one step: where the script goes, the cloud it leaves, the
\* commands it issued (cmds once, again a second time) and its history.
Out(p, c, cmds, again, h) ==
    [pc |-> p, cloud |-> c, cmds |-> cmds, again |-> again, hist |-> h]

Apply(o) ==
    /\ pc' = o.pc
    /\ cloud' = IF o.pc = "aborted" THEN print_error(o.cloud, o.hist.made)
                ELSE o.cloud
    /\ issued' = BumpAll(BumpAll(issued, o.cmds), o.again)
    /\ hist' = o.hist

\* a prompt (input or getpass) is issued
Prompted(h) ==
    [h EXCEPT !.prompted = TRUE, !.latePrompt = @ \/ h.autoStarted]
\* a command of the four provisioning steps failed
Failed(h) == [h EXCEPT !.failed = @ \/ ~h.provisioned]
Checked(h, r, c) ==
    [h EXCEPT !.chk[r] = IF r \in c.res THEN "exists" ELSE "absent"]
Created(h, r) ==
    [h EXCEPT !.createIssued = @ \cup {r}, !.made.res = @ \cup {r}]
CreateFailed(h, r) ==
    Failed([h EXCEPT !.createIssued = @ \cup {r}])

\* a describe-then-create pair; the create runs with check=True
Ensure(c, h, r, next, ok) ==
    LET h1 == Checked(h, r, c) IN
    IF ShouldCreate(Describe(c, r))
    THEN IF ok /\ r \notin c.res
         THEN Out(next, [c EXCEPT !.res = @ \cup {r}], {CreateCmd(r)}, {},
                  Created(h1, r))
         ELSE Out("aborted", c, {CreateCmd(r)}, {}, CreateFailed(h1, r))
    ELSE Out(next, c, {}, {}, h1)

\* main() up to the first step of the selected mode; in interactive mode
\* check_prerequisites (gcloud must be installed) and authenticate_gcp
Main ==
    /\ prog \in {"iac", "setup"} /\ pc = "start"
    /\ \E gcloudFound \in BOOLEAN :
         pc' = IF mode # "interactive" THEN "project_id"
               ELSE IF gcloudFound THEN "gather" ELSE "aborted"
    /\ UNCHANGED <<prog, monVars, checkVars, debugVars, provVars>>

\* iac.py gather_user_inputs: project prompt, token prompts, gh prompt
GatherUserInputs ==
    /\ prog = "iac" /\ pc = "gather"
    /\ \E pidEmpty \in BOOLEAN, answer \in BOOLEAN, tok \in TokenValues :
         IF pidEmpty
         THEN /\ pc' = "aborted"
              /\ hist' = Prompted(hist)
              /\ UNCHANGED config
         ELSE /\ pc' = "enable_apis"
              /\ config' = [update_github_token |-> answer,
                            github_token |-> IF answer THEN tok ELSE ""]
              /\ hist' = [Prompted(hist)
                            EXCEPT !.tokenGiven = answer /\ tok # ""]
    /\ UNCHANGED <<prog, monVars, checkVars, debugVars, mode, skipTf, cloud, locals, run, snap,
                   issued>>

\* setup.py get_project_info: the project prompt
GetProjectInfo ==
    /\ prog = "setup" /\ pc = "gather"
    /\ \E pidEmpty \in BOOLEAN :
         pc' = IF pidEmpty THEN "aborted" ELSE "enable_apis"
    /\ hist' = Prompted(hist)
    /\ UNCHANGED <<prog, monVars, checkVars, debugVars, mode, skipTf, cloud, config, locals, run,
                   snap, issued>>

\* enable_apis of iac.py
EnableApisIac(c, h, setOk, su, out, retryOk) ==
    IF ~setOk
    THEN Out("aborted", c, {"config-set-project"}, {}, Failed(h))
    ELSE IF "SERVICE_DISABLED" \in su
    THEN Out("aborted", c, {"config-set-project", "enable-serviceusage"}, {},
             Failed(h))
    ELSE LET cmds == {"config-set-project", "enable-serviceusage",
                      "enable-apis"}
             h1 == [h EXCEPT !.enableOut = out,
                             !.failed = @ \/ su # {} \/ out # {}]
         IN
         IF ShouldRetry(out)
         THEN IF retryOk
              THEN Out("pool", [c EXCEPT !.apis = TRUE], cmds,
                       {"enable-apis"}, h1)
              ELSE Out("aborted", c, cmds, {"enable-apis"}, h1)
         ELSE Out("pool", [c EXCEPT !.apis = @ \/ out = {}], cmds, {}, h1)

\* enable_apis of setup.py
EnableApisSetup(c, h, setOk, out) ==
    IF ~setOk
    THEN Out("aborted", c, {"config-set-project"}, {}, Failed(h))
    ELSE LET cmds == {"config-set-project", "enable-apis"}
             h1 == [h EXCEPT !.enableOut = out, !.failed = @ \/ out # {}]
         IN
         IF out = {}
         THEN Out("pool", [c EXCEPT !.apis = TRUE], cmds, {}, h1)
         ELSE Out("aborted", c, cmds, {}, h1)

EnableApis ==
    /\ prog \in {"iac", "setup"} /\ pc = "enable_apis"
    /\ \E setOk \in BOOLEAN, su \in EnableOutputs, out \in EnableOutputs,
          retryOk \in BOOLEAN :
         LET h == [hist EXCEPT !.autoStarted = TRUE] IN
         Apply(IF prog = "iac"
               THEN EnableApisIac(cloud, h, setOk, su, out, retryOk)
               ELSE EnableApisSetup(cloud, h, setOk, out))
    /\ UNCHANGED <<prog, monVars, checkVars, debugVars, mode, skipTf, config, locals, run, snap>>

\* setup_workload_identity: the pool
EnsurePool ==
    /\ prog \in {"iac", "setup"} /\ pc = "pool"
    /\ \E ok \in BOOLEAN : Apply(Ensure(cloud, hist, "pool", "provider", ok))
    /\ UNCHANGED <<prog, monVars, checkVars, debugVars, mode, skipTf, config, locals, run, snap>>

\* setup_workload_identity: the provider; an existing provider gets its
\* attribute condition updated (check=False)
ProviderStep(c, h, ok) ==
    IF ShouldCreate(Describe(c, "provider"))
    THEN LET o == Ensure(c, h, "provider", "sa", ok) IN
         [o EXCEPT !.cloud.cond = IF o.pc = "aborted" THEN @ ELSE "repo"]
    ELSE Out("sa", [c EXCEPT !.cond = IF ok THEN "repo" ELSE @],
             {"update-provider"}, {},
             [Checked(h, "provider", c) EXCEPT !.failed = @ \/ ~ok])

EnsureProvider ==
    /\ prog \in {"iac", "setup"} /\ pc = "provider"
    /\ \E ok \in BOOLEAN : Apply(ProviderStep(cloud, hist, ok))
    /\ UNCHANGED <<prog, monVars, checkVars, debugVars, mode, skipTf, config, locals, run, snap>>

\* create_service_account: the service account
EnsureServiceAccount ==
    /\ prog \in {"iac", "setup"} /\ pc = "sa"
    /\ \E ok \in BOOLEAN : Apply(Ensure(cloud, hist, "sa", "bind", ok))
    /\ UNCHANGED <<prog, monVars, checkVars, debugVars, mode, skipTf, config, locals, run, snap>>

\* create_service_account: the workload identity binding on the account
BindStep(c, h, ok) ==
    IF WorkloadIdentityUser \in c.saRoles
    THEN Out("repo1", c, {}, {}, h)
    ELSE IF ok
         THEN Out("repo1", [c EXCEPT !.saRoles = @ \cup {WorkloadIdentityUser}],
                  {"bind-workload-identity"}, {},
                  [h EXCEPT !.made.roles = @ \cup {WorkloadIdentityUser}])
         ELSE Out("repo1", c, {"bind-workload-identity"}, {}, Failed(h))

BindWorkloadIdentity ==
    /\ prog \in {"iac", "setup"} /\ pc = "bind"
    /\ \E ok \in BOOLEAN : Apply(BindStep(cloud, hist, ok))
    /\ UNCHANGED <<prog, monVars, checkVars, debugVars, mode, skipTf, config, locals, run, snap>>

RepoPc(i) == IF i = 1 THEN "repo1" ELSE IF i = 2 THEN "repo2" ELSE "repo3"

\* setup_ci_logs_proxy: the three Artifact Registry repositories
EnsureRepo ==
    /\ prog \in {"iac", "setup"}
    /\ \E i \in 1..Len(Repos), ok \in BOOLEAN :
         /\ pc = RepoPc(i)
         /\ Apply(Ensure(cloud, hist, Repos[i],
                         IF i < Len(Repos) THEN RepoPc(i + 1) ELSE "secret",
                         ok))
    /\ UNCHANGED <<prog, monVars, checkVars, debugVars, mode, skipTf, config, locals, run, snap>>

\* setup_ci_logs_proxy: create or update the secret with the token `tok`
\* when `wanted`; create runs with check=True, versions add is a Popen
SecretWrite(c, h, wanted, createOk, addOk) ==
    IF ~wanted
    THEN Out("grant_gate", c, {}, {}, h)
    ELSE IF Describe(c, Secret) # ""
    THEN Out("grant_gate",
             [c EXCEPT !.versions = IF addOk THEN @ + 1 ELSE @],
             {"add-secret-version"}, {}, [h EXCEPT !.failed = @ \/ ~addOk])
    ELSE IF ~createOk
    THEN Out("aborted", c, {"create-secret"}, {}, Failed(h))
    ELSE Out("grant_gate",
             [c EXCEPT !.res = @ \cup {Secret},
                       !.versions = IF addOk THEN @ + 1 ELSE @],
             {"create-secret", "add-secret-version"}, {},
             [h EXCEPT !.failed = @ \/ ~addOk,
                       !.made.res = @ \cup {Secret}])

\* iac.py: the token was gathered upfront (config)
\* setup.py: the prompts happen here
SecretStep ==
    /\ prog \in {"iac", "setup"} /\ pc = "secret"
    /\ locals' = [locals EXCEPT !.secret_exists = Describe(cloud, Secret)]
    /\ \E answer \in BOOLEAN, tok \in TokenValues, createOk \in BOOLEAN,
          addOk \in BOOLEAN :
         IF prog = "iac"
         THEN Apply(SecretWrite(cloud, hist,
                      config.update_github_token /\ config.github_token # "",
                      createOk, addOk))
         ELSE LET exists == Describe(cloud, Secret) # ""
                  wanted == (exists => answer) /\ tok # ""
                  h == [Prompted(hist) EXCEPT !.tokenGiven = wanted]
              IN Apply(SecretWrite(cloud, h, wanted, createOk, addOk))
    /\ UNCHANGED <<prog, monVars, checkVars, debugVars, mode, skipTf, config, run, snap>>

AfterProxy == IF prog = "iac" THEN "firebase" ELSE "gh_secrets"

\* setup_ci_logs_proxy: the guard of the grants and the policy fetch
GrantGate ==
    /\ prog \in {"iac", "setup"} /\ pc = "grant_gate"
    /\ IF GrantGateOpen(cloud, locals.secret_exists)
          /\ Describe(cloud, "sa") # ""
       THEN /\ pc' = "grant"
            /\ \E allowed \in BOOLEAN :
                 locals' = [locals EXCEPT
                               !.project_policy = GetProjectPolicy(cloud),
                               !.gi = 1,
                               !.iamAllowed = allowed]
            /\ UNCHANGED hist
       ELSE /\ pc' = AfterProxy
            /\ hist' = [hist EXCEPT !.provisioned = TRUE]
            /\ UNCHANGED locals
    /\ UNCHANGED <<prog, monVars, checkVars, debugVars, mode, skipTf, cloud, config, run, snap,
                   issued>>

\* one role of setup_ci_logs_proxy: scan the fetched project policy, issue
\* add-iam-policy-binding (check=False) when the role is not found
GrantStep(c, h, policy, role, next, ok) ==
    LET h1 == [h EXCEPT !.held[role] =
                   IF HeldOnTarget(c, role) THEN "held" ELSE "absent"]
    IN
    IF HasPermission(policy, role)
    THEN Out(next, c, {}, {}, h1)
    ELSE IF ok
         THEN Out(next, ApplyGrant(c, role), {GrantCmd(role)}, {},
                  [h1 EXCEPT !.addIssued = @ \cup {role},
                             !.made.roles = @ \cup
                                 (IF HeldOnTarget(c, role) THEN {} ELSE {role})])
         ELSE Out(next, c, {GrantCmd(role)}, {},
                  Failed([h1 EXCEPT !.addIssued = @ \cup {role}]))

GrantRole ==
    /\ prog \in {"iac", "setup"} /\ pc = "grant"
    /\ LET last == locals.gi = Len(GrantSeq)
           o == GrantStep(cloud, hist, locals.project_policy,
                          GrantSeq[locals.gi],
                          IF last THEN AfterProxy ELSE "grant",
                          locals.iamAllowed)
       IN Apply([o EXCEPT !.hist.provisioned = last])
    /\ locals' = [locals EXCEPT !.gi = IF @ < Len(GrantSeq) THEN @ + 1 ELSE @]
    /\ UNCHANGED <<prog, monVars, checkVars, debugVars, mode, skipTf, config, run, snap>>

\* iac.py initialize_firebase: returns when Firebase is initialised; else
\* posts addFirebase and then reads Colors.INFO, which does not exist: the
\* AttributeError reaches main's "except Exception" and print_error exits
InitializeFirebase ==
    /\ prog = "iac" /\ pc = "firebase"
    /\ \E ok \in BOOLEAN :
         IF cloud.firebase
         THEN Apply(Out("gh_secrets", cloud, {}, {}, hist))
         ELSE Apply(Out("aborted", [cloud EXCEPT !.firebase = ok],
                        {"add-firebase"}, {}, Failed(hist)))
    /\ UNCHANGED <<prog, monVars, checkVars, debugVars, mode, skipTf, config, locals, run, snap>>

\* generate_github_secrets: setup.py asks here whether to create the GitHub
\* secrets when gh is logged in; iac.py uses the answer gathered upfront
GenerateGithubSecrets ==
    /\ prog \in {"iac", "setup"} /\ pc = "gh_secrets"
    /\ \E gh \in BOOLEAN :
         /\ hist' = IF prog = "setup" /\ gh THEN Prompted(hist) ELSE hist
         /\ pc' = IF prog = "iac" /\ ~skipTf THEN "tf_prompt" ELSE "done"
    /\ UNCHANGED <<prog, monVars, checkVars, debugVars, mode, skipTf, cloud, config, locals, run,
                   snap, issued>>

\* iac.py main, interactive: "Run Terraform now to create infrastructure?"
TerraformPrompt ==
    /\ prog = "iac" /\ pc = "tf_prompt"
    /\ \E yes \in BOOLEAN : pc' = IF yes THEN "bucket" ELSE "done"
    /\ hist' = Prompted(hist)
    /\ UNCHANGED <<prog, monVars, checkVars, debugVars, mode, skipTf, cloud, config, locals, run,
                   snap, issued>>

\* iac.py main, --ci and --iac: GCP_PROJECT_ID or the gcloud default project
ProjectId ==
    /\ prog = "iac" /\ pc = "project_id"
    /\ \E envPid \in ProjectIds, gcloudPid \in ProjectIds :
         LET r == ResolveProjectId(envPid, gcloudPid) IN
         /\ pc' = IF r.project_id # "" THEN "sites" ELSE "aborted"
         /\ hist' = IF r.asked THEN Prompted(hist) ELSE hist
    /\ UNCHANGED <<prog, monVars, checkVars, debugVars, mode, skipTf, cloud,
                   config, locals, run, snap, issued>>

\* iac.py create_firebase_hosting_sites: every site that is not found is
\* posted (check=False); the posts of one call count as one command
CreateFirebaseHostingSites ==
    /\ prog = "iac" /\ pc = "sites"
    /\ \E created \in SUBSET (Sites \ cloud.sites) :
         Apply(Out("bucket", [cloud EXCEPT !.sites = @ \cup created],
                   IF cloud.sites = Sites THEN {} ELSE {"create-sites"}, {},
                   [hist EXCEPT !.sitesDone = TRUE]))
    /\ UNCHANGED <<prog, monVars, checkVars, debugVars, mode, skipTf, config, locals, run, snap>>

\* iac.py create_terraform_state_bucket: create, then enable versioning
BucketStep(c, h, ok, versioningOk) ==
    LET o == Ensure(c, h, "bucket", "terraform", ok) IN
    IF o.pc # "aborted" /\ o.cmds # {}
    THEN IF versioningOk
         THEN [o EXCEPT !.cmds = @ \cup {"update-bucket"}]
         ELSE [o EXCEPT !.cmds = @ \cup {"update-bucket"}, !.pc = "aborted"]
    ELSE o

CreateTerraformStateBucket ==
    /\ prog = "iac" /\ pc = "bucket"
    /\ \E ok \in BOOLEAN, versioningOk \in BOOLEAN :
         Apply(BucketStep(cloud, hist, ok, versioningOk))
    /\ UNCHANGED <<prog, monVars, checkVars, debugVars, mode, skipTf, config, locals, run, snap>>

\* iac.py run_terraform: init, validate, plan, apply, each with check=True
RunTerraform ==
    /\ prog = "iac" /\ pc = "terraform"
    /\ \E ok \in BOOLEAN :
         Apply(Out(IF ok THEN "done" ELSE "aborted", cloud, {"terraform"}, {},
                   [hist EXCEPT !.tfRan = TRUE]))
    /\ UNCHANGED <<prog, monVars, checkVars, debugVars, mode, skipTf, config, locals, run, snap>>

\* The script is invoked a second time on the cloud a first run left whose
\* four provisioning steps completed without a failed command.
Rerun ==
    /\ prog \in {"iac", "setup"} /\ mode = "interactive"
    /\ pc \in {"done", "aborted"} /\ run = 1
    /\ hist.provisioned /\ ~hist.failed
    /\ run' = 2
    /\ snap' = cloud
    /\ pc' = "start"
    /\ config' = NoConfig
    /\ locals' = NoLocals
    /\ issued' = NoIssued
    /\ hist' = NoHist
    /\ UNCHANGED <<prog, monVars, checkVars, debugVars, mode, skipTf, cloud>>

\* ------------------------------------------------------- check_workflows
\* check_workflows(branch, count), the whole call
CheckWorkflows ==
    /\ prog = "check" /\ pc = "start"
    /\ pc' = "done"
    /\ token' = get_github_token(env)
    /\ IF token' = ""
       THEN /\ result' = "False"
            /\ UNCHANGED <<fetches, response, shown>>
       ELSE \E fetched \in Fetched :
              LET o == CheckBody(branch, count, fetched) IN
              /\ fetches' = fetches + 1
              /\ response' = fetched
              /\ shown' = o.shown
              /\ result' = o.result
    /\ UNCHANGED <<prog, provVars, debugVars, variant, branch, interval, env,
                   last_run_id, sleeps, lastSleep, poll, intr, stopMsg, count>>

\* -------------------------------------------------- debug_gcp_deployment
\* main, step 1: the access token; without one main returns 1
DebugGetToken ==
    /\ prog = "debug" /\ pc = "start"
    /\ \E out \in GcpTokenOutputs :
         /\ gcp_token' = get_gcp_token(out)
         /\ IF gcp_token' = Null
            THEN pc' = "done" /\ exit_code' = "1"
            ELSE pc' = "apis" /\ exit_code' = exit_code
    /\ UNCHANGED <<prog, monVars, provVars, checkVars, api_status, repos,
                   services, allMet>>

\* main, step 2: the three required APIs
DebugCheckApis ==
    /\ prog = "debug" /\ pc = "apis"
    /\ \E resp \in [Apis -> ApiResponses] :
         api_status' = [a \in Apis |-> check_api_enabled(resp[a])]
    /\ pc' = "registry"
    /\ UNCHANGED <<prog, monVars, provVars, checkVars, gcp_token, repos,
                   services, exit_code, allMet>>

\* main, step 3: the Artifact Registry repositories; a KeyError of
\* repo['name'] is caught by nothing and the script exits with status 1
DebugCheckRegistry ==
    /\ prog = "debug" /\ pc = "registry"
    /\ \E resp \in Listings(RepoNames) :
         /\ repos' = list_or_error(resp)
         /\ IF listing_raises(repos')
            THEN pc' = "done" /\ exit_code' = "1"
            ELSE pc' = "cloud_run" /\ exit_code' = exit_code
    /\ UNCHANGED <<prog, monVars, provVars, checkVars, gcp_token, api_status,
                   services, allMet>>

\* main, step 4: the Cloud Run services
DebugCheckCloudRun ==
    /\ prog = "debug" /\ pc = "cloud_run"
    /\ \E resp \in Listings(ServiceNames) :
         /\ services' = list_or_error(resp)
         /\ IF listing_raises(services')
            THEN pc' = "done" /\ exit_code' = "1"
            ELSE pc' = "recommend" /\ exit_code' = exit_code
    /\ UNCHANGED <<prog, monVars, provVars, checkVars, gcp_token, api_status,
                   repos, allMet>>

\* main, the recommendations: return 1 when there are any, else print
\* "All prerequisites met!" and return 0
DebugRecommend ==
    /\ prog = "debug" /\ pc = "recommend"
    /\ pc' = "done"
    /\ IF Recommendations(api_status, repos) # {}
       THEN exit_code' = "1" /\ allMet' = FALSE
       ELSE exit_code' = "0" /\ allMet' = TRUE
    /\ UNCHANGED <<prog, monVars, provVars, checkVars, gcp_token, api_status,
                   repos, services>>

Next ==
    \/ MonitorStart
    \/ MonitorIntro
    \/ Poll
    \/ Sleep
    \/ Handler
    \/ Interrupt
    \/ Main
    \/ GatherUserInputs
    \/ GetProjectInfo
    \/ EnableApis
    \/ EnsurePool
    \/ EnsureProvider
    \/ EnsureServiceAccount
    \/ BindWorkloadIdentity
    \/ EnsureRepo
    \/ SecretStep
    \/ GrantGate
    \/ GrantRole
    \/ InitializeFirebase
    \/ GenerateGithubSecrets
    \/ TerraformPrompt
    \/ ProjectId
    \/ CreateFirebaseHostingSites
    \/ CreateTerraformStateBucket
    \/ RunTerraform
    \/ Rerun
    \/ CheckWorkflows
    \/ DebugGetToken
    \/ DebugCheckApis
    \/ DebugCheckRegistry
    \/ DebugCheckCloudRun
    \/ DebugRecommend

Spec == Init /\ [][Next]_vars

\* ============================================================ properties

\* C4: in claudeweb's monitor_workflows a poll that observes the latest run
\* (of the selected branch) with status 'completed' returns on that poll,
\* with True for conclusion 'success' and False for every other conclusion.
\* Stated for a run that carries every key the function reads.
C4_CompletedPollReturns ==
    (prog = "monitor" /\ variant = "claudeweb" /\ intr = "none"
        /\ poll.status = "completed" /\ poll.wellFormed)
    => (pc = "done"
        /\ result = IF poll.conclusion = "success" THEN "True" ELSE "False")

\* C5 (as claimed): an exception raised while fetching or processing a poll
\* never ends monitoring and never changes last_run_id.
C5_ExceptionKeepsLastRunId ==
    (prog = "monitor" /\ poll.stage # "none")
    => (last_run_id = poll.before /\ (pc = "done" => intr # "none"))

\* C5 (amended): an exception of the poll is caught by the inner handler,
\* which sleeps one interval and polls again; monitoring ends after it only
\* by an interrupt or because the handler's own sleep rejects a negative
\* interval (fatal error, False). last_run_id is unchanged when the fetch or
\* the id lookup raised, and is the latest run's id when a later statement
\* (format_workflow, conclusion.upper(), the sleep) raised.
C5_CatchAndContinue ==
    (prog = "monitor" /\ poll.stage # "none")
    => /\ poll.stage \in {"fetch", "id"} => last_run_id = poll.before
       /\ poll.stage \in {"format", "upper"} => last_run_id = poll.latestId
       /\ poll.stage = "sleep" =>
            last_run_id = IF poll.latestId # NoneId THEN poll.latestId
                          ELSE poll.before
       /\ pc \in {"handler", "poll", "done"}
       /\ pc = "poll" => (sleeps = 1 /\ lastSleep = <<interval>>)
       /\ pc = "done" =>
            (intr # "none" \/ (sleep_raises(interval) /\ result = "False"))

C5_Witness ==
    /\ prog = "monitor" /\ pc = "poll" /\ poll.stage = "format"
    /\ last_run_id # poll.before /\ sleeps = 1

\* C6: between two consecutive calls of fetch_workflows exactly one sleep of
\* `interval` seconds occurs, on the normal and on the error path alike.
C6_OneFixedSleepBetweenPolls ==
    prog = "monitor"
    => /\ sleeps <= 1
       /\ lastSleep \in {<<>>, <<interval>>}
       /\ (pc = "poll" /\ fetches > 0)
            => (sleeps = 1 /\ lastSleep = <<interval>>)

C6_Witness ==
    /\ prog = "monitor" /\ pc = "poll" /\ fetches >= 2
    /\ poll.stage = "fetch" /\ sleeps = 1

\* C7: a KeyboardInterrupt arriving at any point while monitor_workflows is
\* polling, printing or sleeping prints 'Monitoring stopped by user' and
\* makes monitor_workflows return True.
C7_InterruptStopsCleanly ==
    (prog = "monitor" /\ intr # "none") => (stopMsg /\ result = "True")

Provisioning == prog \in {"iac", "setup"}

\* C1: a second run on the state a successful first run left, with the user
\* giving no token, leaves the listed resources (pool, provider, service
\* account, repositories, secret) and the IAM bindings as the first run left
\* them.
C1_SecondRunChangesNothing ==
    (Provisioning /\ run = 2 /\ ~hist.tokenGiven)
    => /\ cloud.res \cap ListedRes = snap.res \cap ListedRes
       /\ cloud.projRoles = snap.projRoles
       /\ cloud.saRoles = snap.saRoles

C1_Witness ==
    /\ Provisioning /\ run = 2 /\ hist.provisioned /\ ~hist.tokenGiven
    /\ hist.chk["pool"] = "exists"
    /\ hist.held["roles/secretmanager.admin"] = "held"
    /\ snap.projRoles # {}

C3_GrantIffNotHeld ==
    Provisioning
    => \A role \in GrantRoles :
         hist.held[role] # "unchecked"
         => ((role \in hist.addIssued) <=> (hist.held[role] = "absent"))

C9_NoRollback ==
    [][Provisioning =>
         /\ cloud.res \subseteq cloud'.res
         /\ cloud.projRoles \subseteq cloud'.projRoles
         /\ cloud.saRoles \subseteq cloud'.saRoles
         /\ cloud.sites \subseteq cloud'.sites]_vars

C9_Witness ==
    /\ Provisioning /\ pc = "aborted"
    /\ hist.made.res # {} /\ hist.made.roles # {}
    /\ hist.made.res \subseteq cloud.res
    /\ hist.made.roles \subseteq cloud.projRoles \cup cloud.saRoles

\* C10: in interactive mode of iac.py every prompt is issued before the
\* first automation step (enable_apis) starts.
C10_PromptsUpfront ==
    (prog = "iac" /\ mode = "interactive") => ~hist.latePrompt

\* C11: in CI/CD mode (--ci) of iac.py no prompt (input or getpass) is
\* reached on any path: project id, hosting sites, state bucket, terraform,
\* and the abort when no project id is found.
C11_CiNeverPrompts ==
    (prog = "iac" /\ mode = "ci") => (~hist.prompted /\ ~hist.latePrompt)

C11_Witness ==
    /\ prog = "iac" /\ mode = "ci" /\ pc = "done"
    /\ hist.sitesDone /\ hist.chk["bucket"] # "unchecked" /\ hist.tfRan
    /\ ~hist.prompted

\* C12: whenever run_terraform is executed by iac.py (--ci, --iac, or
\* interactive mode after the user accepts the Terraform prompt),
\* create_firebase_hosting_sites has completed earlier in the same run.
C12_SitesBeforeTerraform ==
    (prog = "iac" /\ (hist.tfRan \/ pc = "terraform")) => hist.sitesDone

\* C13: with --skip-terraform iac.py never calls run_terraform and issues
\* no terraform command, whatever the other flags (--ci, --iac, neither).
C13_SkipTerraformSkips ==
    (prog = "iac" /\ skipTf)
    => (~hist.tfRan /\ issued["terraform"] = 0 /\ pc # "terraform")

\* C14: in IaC-only mode (--iac) the only commands that change cloud state
\* are the terraform commands of run_terraform; the script creates no other
\* resource.
C14_IacOnlyTerraform ==
    (prog = "iac" /\ mode = "iac")
    => /\ \A c \in Commands \ {"terraform"} : issued[c] = 0
       /\ hist.createIssued = {}

\* C15: debug_gcp_deployment.main returns 0 and prints "All prerequisites
\* met!" only if every required API it checks (Cloud Run, Artifact Registry,
\* Cloud Build) was reported ENABLED and the Artifact Registry listing
\* succeeded and contains fellspiral-previews and fellspiral-production;
\* in every other case it returns 1.
C15_ZeroOnlyIfAllMet ==
    (prog = "debug" /\ pc = "done")
    => LET met == /\ gcp_token # Null
                  /\ \A a \in Apis : api_status[a] = "True"
                  /\ repos.isList /\ RequiredRepos \subseteq repos.names
       IN /\ (exit_code = "0" \/ allMet) => met
          /\ ~met => (exit_code = "1" /\ ~allMet)

\* C16: check_workflows(branch, count) shows exactly the first `count` runs,
\* in API order, of the fetched runs restricted to the branch (all fetched
\* runs without a branch): never more than `count`, never a run of another
\* branch; with a branch that no fetched run matches it shows nothing and
\* returns False. Stated for responses whose runs carry every key that
\* format_workflow reads; a negative count asks for no run.
C16_ShowsFirstCount ==
    (prog = "check" /\ pc = "done" /\ fetches = 1 /\ response.ok
        /\ \A i \in 1..Len(response.runs) : response.runs[i].keys)
    => LET matching == FilterBranch(branch, response.runs)
           wanted == IF count < 0 THEN 0 ELSE count
       IN /\ Len(shown) <= wanted
          /\ Len(shown) = IF wanted < Len(matching) THEN wanted
                          ELSE Len(matching)
          /\ \A i \in 1..Len(shown) :
                /\ i <= Len(matching)
                /\ shown[i] = matching[i]
                /\ branch # NoBranch => shown[i].head_branch = branch
          /\ (branch # NoBranch /\ matching = <<>>)
                => (shown = <<>> /\ result = "False")

\* C17: with neither GITHUB_TOKEN nor GITHUB_PAT set to a non-empty value
\* check_workflows and monitor_workflows return False without any network
\* request; otherwise the token used is GITHUB_TOKEN when it is non-empty
\* and GITHUB_PAT when it is not.
C17_TokenRequiredAndPreferred ==
    (prog \in {"monitor", "check"} /\ pc # "start")
    => /\ (env.GITHUB_TOKEN = "" /\ env.GITHUB_PAT = "")
            => (pc = "done" /\ result = "False" /\ fetches = 0)
       /\ env.GITHUB_TOKEN # "" => token = env.GITHUB_TOKEN
       /\ (env.GITHUB_TOKEN = "" /\ env.GITHUB_PAT # "")
            => token = env.GITHUB_PAT
       /\ fetches > 0 => token # ""

C17_Witness ==
    /\ prog = "check" /\ pc = "done"
    /\ env.GITHUB_TOKEN = "" /\ env.GITHUB_PAT = ""
    /\ result = "False" /\ fetches = 0 /\ shown = <<>>
====
